---------------------------- MODULE Spec2Model ----------------------------
(* Vendor routing layer and OpenBB adapters of TradingAgents.              *)
(*                                                                         *)
(* Strings are modelled as sequences of tokens: an f-string is the         *)
(* concatenation of its literal pieces and of the str() of its fields, so  *)
(* "contains X" is "X is one of the tokens".  An exception is a record     *)
(* [type, msg] whose msg is the token sequence of str(e).                  *)
EXTENDS Naturals, Sequences, FiniteSets, TLC

(***************************************************************************)
(* Bounds of the model                                                     *)
(***************************************************************************)
\* largest table (number of rows) a provider call returns
MaxRows == 2
\* the counter of completed initializations saturates here
MaxInits == 2

(***************************************************************************)
(* Values                                                                  *)
(***************************************************************************)
None == "None"
NOW == "<now>"

Range(s) == {s[i] : i \in DOMAIN s}
Contains(text, tok) == tok \in Range(text)
Truthy(v) == v # None /\ v # ""

NoExc == [type |-> None, msg |-> <<>>]
Exc(type, msg) == [type |-> type, msg |-> msg]

\* what `from openbb import obb` yields when the package is importable
Clients == {"obbA", "obbB"}
Tickers == {"aapl", "FAKE"}
Msgs == {"API error"}

\* str.upper() on the strings of the model
Upper(s) == IF s = "aapl" THEN "AAPL" ELSE IF s = "gdp" THEN "GDP" ELSE s
\* str.lower() on the frequency strings of the model
Lower(s) == IF s = "Quarterly" THEN "quarterly" ELSE s

(***************************************************************************)
(* Provider responses: the SDK call either raises or returns a result      *)
(* whose to_dataframe() is a table of n rows (n = 0: df.empty).            *)
(***************************************************************************)
Raise(m) == [kind |-> "raise", msg |-> m, n |-> 0]
Table(n) == [kind |-> "table", msg |-> "", n |-> n]
Responses == {Raise(m) : m \in Msgs} \cup {Table(n) : n \in 0..MaxRows}
UnitResponses == {Raise("fail"), Table(0), Table(1)}

Call(endpoint, kwargs, resp) ==
    [endpoint |-> endpoint, kwargs |-> kwargs,
     outcome |-> IF resp.kind = "raise" THEN "raise"
                 ELSE IF resp.n = 0 THEN "empty" ELSE "rows",
     msg |-> resp.msg, n |-> resp.n]

\* df.to_csv(): a column line and one line per row
ToCsv(n) == <<"<columns>">> \o [i \in 1..n |-> ToString(i)]
\* df.tail(k)
TailLen(n, k) == IF n <= k THEN n ELSE k

(***************************************************************************)
(* What an adapter hands back: it raises `raised`, or returns `text`;      *)
(* `calls` are the provider calls it made, `warned` whether                *)
(* logger.warning ran.                                                     *)
(***************************************************************************)
Returned(text, calls, warned) ==
    [raised |-> NoExc, text |-> text, calls |-> calls, warned |-> warned,
     delegated |-> <<>>]
Raised(e, calls) ==
    [raised |-> e, text |-> <<>>, calls |-> calls, warned |-> FALSE,
     delegated |-> <<>>]


(***************************************************************************)
(* State                                                                   *)
(***************************************************************************)
VARIABLES
    _obb,          \* the module global: None or the cached SDK client
    fred_api_key,  \* obb.user.credentials.fred_api_key, the SDK's store
    initRuns,      \* initializations completed since _obb was last None-reset
    served,        \* the clients calls have obtained since that reset
    wasReset,      \* _obb was reset to None and not initialized since
    last,          \* the last call made: what it was given and handed back
    rt,            \* route_to_vendor's frame: candidates, position, outcome
    tool,          \* the frame of the tool wrapper being invoked
    th             \* per thread, its position inside _get_obb

vars == <<_obb, fred_api_key, initRuns, served, wasReset, last, rt, tool, th>>

(***************************************************************************)
(* The environment a call runs in: whether `from openbb import obb`        *)
(* succeeds and what it yields, the two environment variables, and whether *)
(* the SDK accepts the credential assignment.                              *)
(***************************************************************************)
Envs ==
    [importable : BOOLEAN, obb : Clients,
     FRED_API_KEY : {None, "", "k1"}, OPENBB_FRED_API_KEY : {None, "k2"},
     credsOk : BOOLEAN]

\* os.getenv("FRED_API_KEY") or os.getenv("OPENBB_FRED_API_KEY")
FredKey(env) ==
    IF Truthy(env.FRED_API_KEY) THEN env.FRED_API_KEY
    ELSE env.OPENBB_FRED_API_KEY

GetenvSteps(env) ==
    IF Truthy(env.FRED_API_KEY) THEN <<"getenv FRED_API_KEY">>
    ELSE <<"getenv FRED_API_KEY", "getenv OPENBB_FRED_API_KEY">>

NotInstalled ==
    Exc("ImportError", <<"openbb is not installed.",
                         "Install with: pip install 'openbb[yfinance,sec,fred]'">>)
CredentialFailure == Exc("ValidationError", <<"cannot assign fred_api_key">>)

GetObbResult(ret, raised, cached, key, steps, fred_key) ==
    [ret |-> ret, raised |-> raised, obb |-> cached, fred_api_key |-> key,
     steps |-> steps, fred_key |-> fred_key, before |-> _obb]

\* `if _obb is None` is false: the cached client is returned
Cached == GetObbResult(_obb, NoExc, _obb, fred_api_key, <<>>, "unread")

\* the initialization block caching the client before it configures the
\* credential (mutant)
Initialize_cache_first(env) ==
    IF ~env.importable
    THEN GetObbResult(None, NotInstalled, None, fred_api_key,
                      <<"import failed">>, "unread")
    ELSE IF Truthy(FredKey(env)) /\ ~env.credsOk
    THEN GetObbResult(None, CredentialFailure, env.obb, fred_api_key,
                      <<"import">> \o GetenvSteps(env) \o <<"cache", "assign failed">>,
                      FredKey(env))
    ELSE IF Truthy(FredKey(env))
    THEN GetObbResult(env.obb, NoExc, env.obb, FredKey(env),
                      <<"import">> \o GetenvSteps(env) \o <<"cache", "assign", "log">>,
                      FredKey(env))
    ELSE GetObbResult(env.obb, NoExc, env.obb, fred_api_key,
                      <<"import">> \o GetenvSteps(env) \o <<"cache", "log">>,
                      FredKey(env))

\* the initialization block, entered with _obb None
Initialize(env) ==
    IF ~env.importable
    THEN \* `from openbb import obb` raises ImportError, re-raised with the hint
         GetObbResult(None, NotInstalled, None, fred_api_key,
                      <<"import failed">>, "unread")
    ELSE IF Truthy(FredKey(env)) /\ ~env.credsOk
    THEN \* the assignment raises something that is no ImportError: not caught
         GetObbResult(None, CredentialFailure, None, fred_api_key,
                      <<"import">> \o GetenvSteps(env) \o <<"assign failed">>,
                      FredKey(env))
    ELSE IF Truthy(FredKey(env))
    THEN GetObbResult(env.obb, NoExc, env.obb, FredKey(env),
                      <<"import">> \o GetenvSteps(env) \o <<"assign", "cache", "log">>,
                      FredKey(env))
    ELSE GetObbResult(env.obb, NoExc, env.obb, fred_api_key,
                      <<"import">> \o GetenvSteps(env) \o <<"cache", "log">>,
                      FredKey(env))

\* _get_obb whose assignment never reaches the module global (mutant)
_get_obb_uncached(env) ==
    IF _obb # None THEN Cached ELSE [Initialize(env) EXCEPT !.obb = None]

\* _get_obb that configures credentials only while the store is empty (mutant)
_get_obb_keep_credentials(env) ==
    IF _obb # None THEN Cached
    ELSE IF env.importable /\ fred_api_key # None
    THEN GetObbResult(env.obb, NoExc, env.obb, fred_api_key,
                      <<"import", "cache", "log">>, "unread")
    ELSE Initialize(env)

\* _get_obb that swallows the failed import and returns None (mutant)
_get_obb_import_swallowed(env) ==
    IF _obb # None THEN Cached
    ELSE IF ~env.importable THEN [Initialize(env) EXCEPT !.raised = NoExc]
    ELSE Initialize(env)

\* _get_obb that configures the credential on every call (mutant)
_get_obb_reread(env) ==
    IF _obb = None THEN Initialize(env)
    ELSE IF Truthy(FredKey(env))
    THEN GetObbResult(_obb, NoExc, _obb, FredKey(env),
                      GetenvSteps(env) \o <<"assign">>, FredKey(env))
    ELSE GetObbResult(_obb, NoExc, _obb, fred_api_key, GetenvSteps(env), FredKey(env))

\* _get_obb(): the lazy initializer
_get_obb(env) == IF _obb # None THEN Cached ELSE Initialize(env)

\* the get of a call that never reaches _get_obb
NoGet ==
    [ret |-> None, raised |-> NoExc, obb |-> None, fred_api_key |-> None,
     steps |-> <<>>, fred_key |-> "unread", before |-> None]

(***************************************************************************)
(* Adapters.  `resp` is what the SDK answers to the provider calls the     *)
(* adapter makes, in the order it makes them.  Each operator is the body   *)
(* of the adapter after `obb = _get_obb()` has returned a client.          *)
(***************************************************************************)

\* the try block with the exception handed on instead of stringified (mutant)
OneCall_reraise(call, resp, errHead, noText, okText) ==
    IF resp.kind = "raise" THEN Raised(Exc("Exception", <<resp.msg>>), <<call>>)
    ELSE IF resp.n = 0 THEN Returned(noText, <<call>>, FALSE)
    ELSE Returned(okText, <<call>>, FALSE)

\* the try block with the empty table formatted like a populated one (mutant)
OneCall_no_empty_check(call, resp, errHead, noText, okText) ==
    IF resp.kind = "raise"
    THEN Returned(errHead \o <<resp.msg>>, <<call>>, TRUE)
    ELSE Returned(okText, <<call>>, FALSE)

\* the try block repeating the provider call once after a failure (mutant)
OneCall_retry(call, resp, errHead, noText, okText) ==
    IF resp.kind = "raise"
    THEN Returned(errHead \o <<resp.msg>>, <<call, call>>, TRUE)
    ELSE IF resp.n = 0 THEN Returned(noText, <<call>>, FALSE)
    ELSE Returned(okText, <<call>>, FALSE)

\* try: one provider call; df.empty -> the no-data message; otherwise the
\* formatted table; except Exception as e: logger.warning, the error string
OneCall(call, resp, errHead, noText, okText) ==
    IF resp.kind = "raise"
    THEN Returned(errHead \o <<resp.msg>>, <<call>>, TRUE)
    ELSE IF resp.n = 0 THEN Returned(noText, <<call>>, FALSE)
    ELSE Returned(okText, <<call>>, FALSE)

get_stock_data(symbol, start_date, end_date, resp) ==
    OneCall(
        Call("equity.price.historical",
             [symbol |-> Upper(symbol), start_date |-> start_date,
              end_date |-> end_date, provider |-> "yfinance"], resp[1]),
        resp[1],
        <<"Error", "fetching stock data for", symbol, ":">>,
        <<"No", "data", "found", "for symbol", symbol,
          "between", start_date, "and", end_date>>,
        <<"# Stock data for", Upper(symbol), "from", start_date, "to", end_date,
          "# Total records:", ToString(resp[1].n),
          "# Source: OpenBB (yfinance provider)",
          "# Data retrieved on:", NOW>> \o ToCsv(resp[1].n))

\* get_stock_stats_indicators_window of y_finance: returns a report or raises
DelegateOutcomes == {Raise(m) : m \in Msgs} \cup {Table(1)}

get_indicators(symbol, indicator, curr_date, look_back_days, resp) ==
    [raised |-> IF resp[1].kind = "raise"
                THEN Exc("Exception", <<resp[1].msg>>) ELSE NoExc,
     text |-> IF resp[1].kind = "raise" THEN <<>>
              ELSE <<"<stockstats report>", symbol, indicator, curr_date,
                     ToString(look_back_days)>>,
     calls |-> <<>>, warned |-> FALSE,
     delegated |-> <<symbol, indicator, curr_date, look_back_days>>]

\* get_fundamentals with the metrics call outside any try block (mutant)
get_fundamentals_metrics_unguarded(ticker, curr_date, resp) ==
    LET profile == Call("equity.profile",
                        [symbol |-> Upper(ticker), provider |-> "yfinance"], resp[1])
        metrics == Call("equity.fundamental.metrics",
                        [symbol |-> Upper(ticker), provider |-> "yfinance"], resp[2])
    IN  IF resp[1].kind = "table" /\ resp[1].n > 0 /\ resp[2].kind = "raise"
        THEN Raised(Exc("Exception", <<resp[2].msg>>), <<profile, metrics>>)
        ELSE OneCall(profile, resp[1],
                     <<"Error", "retrieving fundamentals for", ticker, ":">>,
                     <<"No", "fundamentals data", "found", "for symbol", ticker>>,
                     <<"# Company Fundamentals for", Upper(ticker)>>)

\* get_fundamentals without the inner try: a failing metrics call lands in
\* the outer handler (mutant)
get_fundamentals_metrics_reported(ticker, curr_date, resp) ==
    LET profile == Call("equity.profile",
                        [symbol |-> Upper(ticker), provider |-> "yfinance"], resp[1])
        metrics == Call("equity.fundamental.metrics",
                        [symbol |-> Upper(ticker), provider |-> "yfinance"], resp[2])
        header == <<"# Company Fundamentals for", Upper(ticker),
                    "# Source: OpenBB", "# Data retrieved on:", NOW>>
        extra == IF resp[2].kind = "table" /\ resp[2].n > 0
                 THEN <<"<metric fields>">> ELSE <<>>
    IN  IF resp[1].kind = "raise"
        THEN Returned(<<"Error", "retrieving fundamentals for", ticker, ":",
                        resp[1].msg>>, <<profile>>, TRUE)
        ELSE IF resp[1].n = 0
        THEN Returned(<<"No", "fundamentals data", "found", "for symbol", ticker>>,
                      <<profile>>, FALSE)
        ELSE IF resp[2].kind = "raise"
        THEN Returned(<<"Error", "retrieving fundamentals for", ticker, ":",
                        resp[2].msg>>, <<profile, metrics>>, TRUE)
        ELSE Returned(header \o <<"<profile fields>">> \o extra,
                      <<profile, metrics>>, FALSE)

get_fundamentals(ticker, curr_date, resp) ==
    LET profile == Call("equity.profile",
                        [symbol |-> Upper(ticker), provider |-> "yfinance"], resp[1])
        metrics == Call("equity.fundamental.metrics",
                        [symbol |-> Upper(ticker), provider |-> "yfinance"], resp[2])
        header == <<"# Company Fundamentals for", Upper(ticker),
                    "# Source: OpenBB", "# Data retrieved on:", NOW>>
        lines == <<"<profile fields>">>
        extra == IF resp[2].kind = "table" /\ resp[2].n > 0
                 THEN <<"<metric fields>">> ELSE <<>>
    IN  IF resp[1].kind = "raise"
        THEN Returned(<<"Error", "retrieving fundamentals for", ticker, ":",
                        resp[1].msg>>, <<profile>>, TRUE)
        ELSE IF resp[1].n = 0
        THEN Returned(<<"No", "fundamentals data", "found", "for symbol", ticker>>,
                      <<profile>>, FALSE)
        ELSE Returned(header \o lines \o extra, <<profile, metrics>>, FALSE)

\* the period chosen by comparing freq without lower-casing it (mutant)
Period_case_sensitive(freq) == IF freq = "quarterly" THEN "quarter" ELSE "annual"

\* period = "quarter" if freq.lower() == "quarterly" else "annual"
Period(freq) == IF Lower(freq) = "quarterly" THEN "quarter" ELSE "annual"

StatementKwargs(ticker, freq) ==
    [symbol |-> Upper(ticker), period |-> Period(freq),
     provider |-> "yfinance", limit |-> 8]

get_balance_sheet(ticker, freq, resp) ==
    OneCall(
        Call("equity.fundamental.balance", StatementKwargs(ticker, freq), resp[1]),
        resp[1],
        <<"Error", "retrieving balance sheet for", ticker, ":">>,
        <<"No", "balance sheet data", "found", "for symbol", ticker>>,
        <<"# Balance Sheet data for", Upper(ticker), freq, "# Source: OpenBB",
          "# Data retrieved on:", NOW>> \o ToCsv(resp[1].n))

get_cashflow(ticker, freq, resp) ==
    OneCall(
        Call("equity.fundamental.cash", StatementKwargs(ticker, freq), resp[1]),
        resp[1],
        <<"Error", "retrieving cash flow for", ticker, ":">>,
        <<"No", "cash flow data", "found", "for symbol", ticker>>,
        <<"# Cash Flow data for", Upper(ticker), freq, "# Source: OpenBB",
          "# Data retrieved on:", NOW>> \o ToCsv(resp[1].n))

get_income_statement(ticker, freq, resp) ==
    OneCall(
        Call("equity.fundamental.income", StatementKwargs(ticker, freq), resp[1]),
        resp[1],
        <<"Error", "retrieving income statement for", ticker, ":">>,
        <<"No", "income statement data", "found", "for symbol", ticker>>,
        <<"# Income Statement data for", Upper(ticker), freq, "# Source: OpenBB",
          "# Data retrieved on:", NOW>> \o ToCsv(resp[1].n))

get_insider_transactions(ticker, resp) ==
    OneCall(
        Call("equity.ownership.insider_trading",
             [symbol |-> Upper(ticker), provider |-> "sec", limit |-> 50], resp[1]),
        resp[1],
        <<"Error", "retrieving insider transactions for", ticker, ":">>,
        <<"No", "insider transactions data", "found", "for symbol", ticker>>,
        <<"# Insider Transactions data for", Upper(ticker),
          "# Source: OpenBB (SEC)", "# Data retrieved on:", NOW>>
            \o ToCsv(resp[1].n))

\* one "### title (source: ...)" block per row of the table
NewsBlocks(n) == [i \in 1..n |-> "### " \o ToString(i)]

get_news(ticker, start_date, end_date, resp) ==
    OneCall(
        Call("news.company",
             [symbol |-> Upper(ticker), start_date |-> start_date,
              end_date |-> end_date, provider |-> "yfinance", limit |-> 20],
             resp[1]),
        resp[1],
        <<"Error", "fetching news for", ticker, ":">>,
        <<"No", "news", "found", "for", ticker,
          "between", start_date, "and", end_date>>,
        <<"##", ticker, "News, from", start_date, "to", end_date>>
            \o NewsBlocks(resp[1].n))

\* (strptime(curr_date) - relativedelta(days=look_back_days)).strftime(...)
DaysBefore(curr_date, look_back_days) ==
    IF curr_date = "2025-01-15" /\ look_back_days = 7 THEN "2025-01-08"
    ELSE "<" \o curr_date \o " minus " \o ToString(look_back_days) \o " days>"

get_global_news(curr_date, look_back_days, limit, resp) ==
    LET start_date == DaysBefore(curr_date, look_back_days)
    IN  OneCall(
            Call("news.world",
                 [start_date |-> start_date, end_date |-> curr_date,
                  provider |-> "yfinance", limit |-> limit], resp[1]),
            resp[1],
            <<"Error", "fetching global news", ":">>,
            <<"No", "global news", "found", "for", curr_date>>,
            <<"## Global Market News, from", start_date, "to", curr_date>>
                \o NewsBlocks(resp[1].n))

\* one "- [date] description" line per row of the table
FilingLines(n) == [i \in 1..n |-> "- " \o ToString(i)]

get_sec_filings(ticker, filing_type, limit, resp) ==
    OneCall(
        Call("equity.fundamental.filings",
             [symbol |-> Upper(ticker), type |-> filing_type,
              provider |-> "sec", limit |-> limit], resp[1]),
        resp[1],
        <<"Error", "retrieving SEC filings for", ticker, ":">>,
        <<"No", filing_type, "filings", "found", "for", ticker>>,
        <<"# SEC", filing_type, "Filings for", Upper(ticker),
          "# Source: OpenBB (SEC)", "# Data retrieved on:", NOW>>
            \o FilingLines(resp[1].n))

\* recent = df.tail(20)
TailRows == 20

\* the column line and the first k of the n rows, as df.head(k) gives (mutant)
ToCsvTail_head(n, k) == <<"<columns>">> \o [i \in 1..k |-> ToString(i)]

\* recent.to_csv(): the column line and the last k of the n rows
ToCsvTail(n, k) == <<"<columns>">> \o [i \in 1..k |-> ToString(n - k + i)]

\* kwargs always carrying both dates (mutant)
FredKwargs_always_dates(indicator, start_date, end_date) ==
    [symbol |-> indicator, provider |-> "fred",
     start_date |-> start_date, end_date |-> end_date]

\* kwargs carries start_date / end_date only when the argument is truthy
FredKwargs(indicator, start_date, end_date) ==
    IF Truthy(start_date) /\ Truthy(end_date)
    THEN [symbol |-> indicator, provider |-> "fred",
          start_date |-> start_date, end_date |-> end_date]
    ELSE IF Truthy(start_date)
    THEN [symbol |-> indicator, provider |-> "fred", start_date |-> start_date]
    ELSE IF Truthy(end_date)
    THEN [symbol |-> indicator, provider |-> "fred", end_date |-> end_date]
    ELSE [symbol |-> indicator, provider |-> "fred"]

get_economic_indicators(indicator, start_date, end_date, resp) ==
    LET k == TailLen(resp[1].n, TailRows)
    IN  OneCall(
            Call("economy.fred_series",
                 FredKwargs(indicator, start_date, end_date), resp[1]),
            resp[1],
            <<"Error", "retrieving FRED data for", indicator, ":">>,
            <<"No", "data", "found", "for FRED series", indicator>>,
            <<"# FRED Economic Data:", indicator, "# Source: OpenBB (FRED)",
              "# Showing last", ToString(k), "data points",
              "# Data retrieved on:", NOW>> \o ToCsvTail(resp[1].n, k))

\* indices and index_names, then fred_series, in the order they are iterated
indices == <<"^GSPC", "^DJI", "^IXIC", "^VIX">>
index_names == <<"S&P 500", "Dow Jones", "NASDAQ", "VIX">>
fred_series == <<"FEDFUNDS", "DGS10", "UNRATE">>
fred_labels == <<"Fed Funds Rate", "10Y Treasury", "Unemployment Rate">>

OverviewItems == Len(indices) + Len(fred_series)

OverviewCall(i, r) ==
    IF i <= Len(indices)
    THEN Call("equity.price.historical",
              [symbol |-> indices[i], provider |-> "yfinance", limit |-> 5], r)
    ELSE Call("economy.fred_series",
              [symbol |-> fred_series[i - Len(indices)], provider |-> "fred"], r)

OverviewLabel(i) ==
    IF i <= Len(indices) THEN index_names[i] ELSE fred_labels[i - Len(indices)]

\* sections after the first i items: an item adds "<label>: <value>" when its
\* call returned a non-empty table; `except Exception: pass` otherwise
RECURSIVE OverviewSections(_, _)
OverviewSections(i, resp) ==
    IF i = 0 THEN <<>>
    ELSE OverviewSections(i - 1, resp) \o
         (IF resp[i].kind = "table" /\ resp[i].n > 0
          THEN <<OverviewLabel(i) \o ": " \o ToString(resp[i].n)>>
          ELSE <<>>)

\* get_market_overview giving up at the first item whose call raises (mutant)
get_market_overview_stop_at_failure(resp) ==
    LET failing == {i \in 1..OverviewItems : resp[i].kind = "raise"}
        done == IF failing = {} THEN OverviewItems
                ELSE CHOOSE i \in failing : \A j \in failing : i <= j
        sections == OverviewSections(done, resp)
        calls == [i \in 1..done |-> OverviewCall(i, resp[i])]
    IN  IF sections = <<>>
        THEN Returned(<<"Unable to retrieve market overview data">>, calls, FALSE)
        ELSE Returned(<<"# Market Overview", "# Source: OpenBB",
                        "# Data retrieved on:", NOW>> \o sections, calls, FALSE)

get_market_overview(resp) ==
    LET sections == OverviewSections(OverviewItems, resp)
        calls == [i \in 1..OverviewItems |-> OverviewCall(i, resp[i])]
    IN  IF sections = <<>>
        THEN Returned(<<"Unable to retrieve market overview data">>, calls, FALSE)
        ELSE Returned(<<"# Market Overview", "# Source: OpenBB",
                        "# Data retrieved on:", NOW>> \o sections, calls, FALSE)

(***************************************************************************)
(* The openbb vendor: which adapter serves which capability, the           *)
(* arguments and SDK answers the model draws for each.                     *)
(***************************************************************************)
Exclusive == {"get_economic_indicators", "get_market_overview", "get_sec_filings"}
Shared == {"get_stock_data", "get_indicators", "get_fundamentals",
           "get_balance_sheet", "get_cashflow", "get_income_statement",
           "get_insider_transactions", "get_news", "get_global_news"}
Methods == Shared \cup Exclusive
Statements == {"get_balance_sheet", "get_cashflow", "get_income_statement"}

Freqs == {"quarterly", "Quarterly", "annual", "monthly"}

ArgsOf(method) ==
    CASE method = "get_stock_data" -> {<<"aapl", "2025-01-01", "2025-01-02">>}
      [] method = "get_indicators" -> {<<"aapl", "rsi", "2025-01-02", 30>>}
      [] method = "get_fundamentals" -> {<<"aapl", "2025-01-02">>}
      [] method = "get_balance_sheet" ->
           {<<"aapl", f>> : f \in Freqs} \cup {<<"FAKE", "annual">>}
      [] method \in Statements -> {<<"aapl", f>> : f \in Freqs}
      [] method = "get_insider_transactions" -> {<<t>> : t \in Tickers}
      [] method = "get_news" -> {<<"aapl", "2025-01-01", "2025-01-07">>}
      [] method = "get_global_news" -> {<<"2025-01-15", 7, 10>>}
      [] method = "get_sec_filings" -> {<<"aapl", "10-K", 5>>, <<"FAKE", "10-Q", 5>>}
      [] method = "get_economic_indicators" ->
           {<<"gdp", None, None>>, <<"UNRATE", "", "2024-12-31">>,
            <<"UNRATE", "2024-01-01", None>>,
            <<"UNRATE", "2024-01-01", "2024-12-31">>}
      [] method = "get_market_overview" -> {<<>>}
      [] OTHER -> {<<>>}

\* answers to the seven calls of get_market_overview: no item, one item, all
\* items but one or all items yield a value; the others all raise or all
\* come back empty
OverviewResps ==
    {[i \in 1..OverviewItems |-> IF i \in ok THEN Table(1) ELSE bad] :
     ok \in {{}, 1..OverviewItems}
             \cup {{i} : i \in 1..OverviewItems}
             \cup {(1..OverviewItems) \ {i} : i \in 1..OverviewItems},
     bad \in {Table(0), Raise("fail")}}

\* the environments a call may find: any of `envs` while nothing is cached;
\* once a client is cached, the ones that differ in what a second
\* initialization would import or read
EnvsNow(envs) ==
    IF _obb = None THEN envs
    ELSE {e \in envs : /\ e.obb = "obbA" /\ e.credsOk
                       /\ e.OPENBB_FRED_API_KEY = None
                       /\ e.importable = (e.FRED_API_KEY = "k1")}

\* the environments adapter calls are run in
AdapterEnvs ==
    {[importable |-> FALSE, obb |-> "obbA", FRED_API_KEY |-> None,
      OPENBB_FRED_API_KEY |-> None, credsOk |-> TRUE],
     [importable |-> TRUE, obb |-> "obbA", FRED_API_KEY |-> None,
      OPENBB_FRED_API_KEY |-> None, credsOk |-> TRUE],
     [importable |-> TRUE, obb |-> "obbA", FRED_API_KEY |-> "k1",
      OPENBB_FRED_API_KEY |-> None, credsOk |-> TRUE],
     [importable |-> TRUE, obb |-> "obbB", FRED_API_KEY |-> "",
      OPENBB_FRED_API_KEY |-> "k2", credsOk |-> TRUE],
     [importable |-> TRUE, obb |-> "obbB", FRED_API_KEY |-> "k1",
      OPENBB_FRED_API_KEY |-> "k2", credsOk |-> FALSE]}

RespsOf(method) ==
    CASE method = "get_indicators" -> {<<r>> : r \in DelegateOutcomes}
      [] method = "get_economic_indicators" ->
           {<<r>> : r \in Responses \cup {Table(TailRows), Table(TailRows + 1)}}
      [] method = "get_fundamentals" ->
           {<<r1, Table(1)>> : r1 \in Responses}
               \cup {<<Table(1), r2>> : r2 \in UnitResponses}
      [] method = "get_market_overview" -> OverviewResps
      [] OTHER -> {<<r>> : r \in Responses}

\* the adapter's body, dispatched on the capability it is registered for
Body(method, args, resp) ==
    CASE method = "get_stock_data" -> get_stock_data(args[1], args[2], args[3], resp)
      [] method = "get_fundamentals" -> get_fundamentals(args[1], args[2], resp)
      [] method = "get_balance_sheet" -> get_balance_sheet(args[1], args[2], resp)
      [] method = "get_cashflow" -> get_cashflow(args[1], args[2], resp)
      [] method = "get_income_statement" ->
           get_income_statement(args[1], args[2], resp)
      [] method = "get_insider_transactions" ->
           get_insider_transactions(args[1], resp)
      [] method = "get_news" -> get_news(args[1], args[2], args[3], resp)
      [] method = "get_global_news" ->
           get_global_news(args[1], args[2], args[3], resp)
      [] method = "get_sec_filings" ->
           get_sec_filings(args[1], args[2], args[3], resp)
      [] method = "get_economic_indicators" ->
           get_economic_indicators(args[1], args[2], args[3], resp)
      [] method = "get_market_overview" -> get_market_overview(resp)

\* get_indicators obtaining the client first, like the other adapters (mutant)
Adapter_indicators_through_obb(method, args, env, resp) ==
    LET g == _get_obb(env)
    IN  [get |-> g, touched |-> TRUE,
         out |-> IF g.raised # NoExc THEN Raised(g.raised, <<>>)
                 ELSE IF method = "get_indicators"
                 THEN get_indicators(args[1], args[2], args[3], args[4], resp)
                 ELSE Body(method, args, resp)]

\* an adapter call: `obb = _get_obb()` stands outside the try block, so what
\* _get_obb raises leaves the adapter; get_indicators never calls _get_obb
Adapter(method, args, env, resp) ==
    IF method = "get_indicators"
    THEN [get |-> NoGet, touched |-> FALSE,
          out |-> get_indicators(args[1], args[2], args[3], args[4], resp)]
    ELSE LET g == _get_obb(env)
         IN  [get |-> g, touched |-> TRUE,
              out |-> IF g.raised # NoExc THEN Raised(g.raised, <<>>)
                      ELSE Body(method, args, resp)]

Completed(g) == Contains(g.steps, "cache")
Inc(n) == IF n < MaxInits THEN n + 1 ELSE n

\* the effect of a pass through _get_obb on the module's state
Untouched == UNCHANGED <<_obb, fred_api_key, initRuns, served, wasReset>>
Effect(g) ==
    /\ _obb' = g.obb
    /\ fred_api_key' = g.fred_api_key
    /\ initRuns' = IF Completed(g) THEN Inc(initRuns) ELSE initRuns
    /\ served' = IF g.ret # None THEN served \cup {g.ret} ELSE served
    /\ wasReset' = (wasReset /\ ~Completed(g))

\* the environment of a call that is given none
NoEnv ==
    [importable |-> FALSE, obb |-> "obbA", FRED_API_KEY |-> None,
     OPENBB_FRED_API_KEY |-> None, credsOk |-> TRUE]

\* a call as it is recorded: what it was given, the environment it ran in,
\* _obb and the credential store as it found them, whether the call before
\* it failed inside _get_obb, and what it handed back
CallRecord(op, args, via, env, get, out) ==
    [op |-> op, args |-> args, via |-> via, env |-> env, get |-> get, out |-> out,
     afterReset |-> wasReset, obbBefore |-> _obb, keyBefore |-> fred_api_key,
     afterFailure |-> (last.get.raised # NoExc)]
NoOut == Returned(<<>>, <<>>, FALSE)
NoCall == [op |-> None, args |-> <<>>, via |-> None, env |-> NoEnv, get |-> NoGet,
           out |-> NoOut, afterReset |-> FALSE, obbBefore |-> None,
           keyBefore |-> None, afterFailure |-> FALSE]

(***************************************************************************)
(* The registry, the category table and the router (dataflows/interface).  *)
(***************************************************************************)
VENDOR_LIST == <<"yfinance", "alpha_vantage", "openbb">>

\* vendors registered for a capability, in registration order
VENDOR_METHODS(method) ==
    IF method \in Exclusive THEN <<"openbb">>
    ELSE IF method \in Shared THEN VENDOR_LIST
    ELSE <<>>

\* the category table with get_sec_filings declared twice (mutant)
TOOLS_CATEGORIES_overlapping ==
    << [name |-> "core_stock_apis", tools |-> {"get_stock_data"}],
       [name |-> "technical_indicators", tools |-> {"get_indicators"}],
       [name |-> "fundamental_data",
        tools |-> {"get_fundamentals", "get_balance_sheet", "get_cashflow",
                   "get_income_statement"}],
       [name |-> "news_data",
        tools |-> {"get_news", "get_global_news", "get_insider_transactions"}],
       [name |-> "macro_data",
        tools |-> {"get_economic_indicators", "get_market_overview",
                   "get_sec_filings"}],
       [name |-> "sec_data", tools |-> {"get_sec_filings"}] >>

TOOLS_CATEGORIES ==
    << [name |-> "core_stock_apis", tools |-> {"get_stock_data"}],
       [name |-> "technical_indicators", tools |-> {"get_indicators"}],
       [name |-> "fundamental_data",
        tools |-> {"get_fundamentals", "get_balance_sheet", "get_cashflow",
                   "get_income_statement"}],
       [name |-> "news_data",
        tools |-> {"get_news", "get_global_news", "get_insider_transactions"}],
       [name |-> "macro_data",
        tools |-> {"get_economic_indicators", "get_market_overview"}],
       [name |-> "sec_data", tools |-> {"get_sec_filings"}] >>

Categories == {TOOLS_CATEGORIES[i].name : i \in DOMAIN TOOLS_CATEGORIES}

DEFAULT_CONFIG ==
    [c \in Categories |->
        IF c \in {"macro_data", "sec_data"} THEN "openbb" ELSE "yfinance"]

\* what a configuration may hold for a category: nothing, a listed vendor,
\* or a name no implementation is registered under
ConfigValues == {None, "unlisted"} \cup Range(VENDOR_LIST)

NotFound(method) ==
    Exc("ValueError", <<"Method", method, "not found", "in any category">>)

\* scan of the categories from the i-th on
RECURSIVE CategoryFrom(_, _)
CategoryFrom(i, method) ==
    IF i > Len(TOOLS_CATEGORIES)
    THEN [raised |-> NotFound(method), category |-> None]
    ELSE IF method \in TOOLS_CATEGORIES[i].tools
    THEN [raised |-> NoExc, category |-> TOOLS_CATEGORIES[i].name]
    ELSE CategoryFrom(i + 1, method)

\* category lookup that answers with a default category (mutant)
get_category_for_method_default(method) ==
    IF CategoryFrom(1, method).raised # NoExc
    THEN [raised |-> NoExc, category |-> "core_stock_apis"]
    ELSE CategoryFrom(1, method)

get_category_for_method(method) == CategoryFrom(1, method)

\* the preferred vendor the configuration holds for the category
get_vendor(category, config) == config[category]

\* candidates with the configured vendor put first unconditionally (mutant)
Candidates_unchecked(method, configured) ==
    LET Other(v) == v # configured
    IN  (IF configured # None THEN <<configured>> ELSE <<>>)
            \o SelectSeq(VENDOR_METHODS(method), Other)

\* candidates in plain registration order (mutant)
Candidates_registration_order(method, configured) == VENDOR_METHODS(method)

\* configured vendor first if it has an implementation for the capability,
\* then the remaining registered vendors in registration order
Candidates(method, configured) ==
    LET Other(v) == v # configured
    IN  (IF Contains(VENDOR_METHODS(method), configured)
         THEN <<configured>> ELSE <<>>)
            \o SelectSeq(VENDOR_METHODS(method), Other)

\* an implementation of another vendor: returns its data or raises
VendorOutcomes(vendor) ==
    {[raised |-> NoExc, text |-> <<"<" \o vendor \o " data>">>],
     [raised |-> Exc("Exception", <<vendor \o " failed">>), text |-> <<>>]}

RtIdle ==
    [pc |-> "idle", method |-> None, args |-> <<>>, category |-> None,
     configured |-> None, candidates |-> <<>>, tried |-> <<>>,
     errors |-> <<>>, raised |-> NoExc, text |-> <<>>]

\* the loop handing the first error on when every candidate raised (mutant)
AfterAttempt_first_error(r, vendor, o) ==
    LET tried == Append(r.tried, vendor)
        errors == IF o.raised # NoExc THEN Append(r.errors, o.raised) ELSE r.errors
    IN  IF o.raised = NoExc
        THEN [r EXCEPT !.pc = "done", !.tried = tried, !.text = o.text]
        ELSE IF Len(tried) = Len(r.candidates)
        THEN [r EXCEPT !.pc = "done", !.tried = tried, !.errors = errors,
                       !.raised = errors[1]]
        ELSE [r EXCEPT !.tried = tried, !.errors = errors]

\* one turn of the router's loop: the candidate returned (the router returns
\* its result) or raised (the next candidate is tried; after the last one its
\* error is propagated)
AfterAttempt(r, vendor, o) ==
    LET tried == Append(r.tried, vendor)
        errors == IF o.raised # NoExc THEN Append(r.errors, o.raised) ELSE r.errors
    IN  IF o.raised = NoExc
        THEN [r EXCEPT !.pc = "done", !.tried = tried, !.text = o.text]
        ELSE IF Len(tried) = Len(r.candidates)
        THEN [r EXCEPT !.pc = "done", !.tried = tried, !.errors = errors,
                       !.raised = o.raised]
        ELSE [r EXCEPT !.tried = tried, !.errors = errors]

\* route_to_vendor up to its loop: category, configured vendor, candidates
route_to_vendor(method, args, config) ==
    LET c == get_category_for_method(method)
    IN  IF c.raised # NoExc
        THEN [RtIdle EXCEPT !.pc = "done", !.method = method, !.args = args,
                            !.raised = c.raised]
        ELSE [RtIdle EXCEPT
                !.pc = "trying", !.method = method, !.args = args,
                !.category = c.category,
                !.configured = get_vendor(c.category, config),
                !.candidates = Candidates(method, get_vendor(c.category, config))]

\* the configurations a capability is routed under: the default one with any
\* value in the slot of the capability's category
Configs(method) ==
    LET c == get_category_for_method(method).category
    IN  IF c = None THEN {DEFAULT_CONFIG}
        ELSE {[DEFAULT_CONFIG EXCEPT ![c] = v] : v \in ConfigValues}

\* the arguments and SDK answers of the calls made through the router
RouterArgs(method) == {CHOOSE a \in ArgsOf(method) : TRUE}
RouterResps(method) ==
    IF method = "get_market_overview"
    THEN {[i \in 1..OverviewItems |-> r] : r \in UnitResponses}
    ELSE RespsOf(method)

(***************************************************************************)
(* The tool wrappers (agents/utils/macro_data_tools).  A wrapper is        *)
(* modelled by the calls of route_to_vendor its body makes, in order; it   *)
(* returns what the last of them returned.                                 *)
(***************************************************************************)
RouteCall(method, args) == [method |-> method, args |-> args]

\* the defaults of the declared parameters, in declared order
ToolDefaults(name) ==
    CASE name = "get_economic_indicators" -> <<"<required>", None, None>>
      [] name = "get_sec_filings" -> <<"<required>", "10-K", 5>>
      [] name = "get_market_overview" -> <<>>

\* the parameters as the body sees them: what was given (`given` maps the
\* positions of the supplied parameters to their values), else the default
Bound(name, given) ==
    [i \in 1..Len(ToolDefaults(name)) |->
        IF i \in DOMAIN given THEN given[i] ELSE ToolDefaults(name)[i]]

\* the wrapper forwarding its two dates in the wrong order (mutant)
tool_get_economic_indicators_swapped(indicator, start_date, end_date) ==
    <<RouteCall("get_economic_indicators", <<indicator, end_date, start_date>>)>>

tool_get_economic_indicators(indicator, start_date, end_date) ==
    <<RouteCall("get_economic_indicators", <<indicator, start_date, end_date>>)>>

tool_get_market_overview == <<RouteCall("get_market_overview", <<>>)>>

tool_get_sec_filings(ticker, filing_type, limit) ==
    <<RouteCall("get_sec_filings", <<ticker, filing_type, limit>>)>>

ToolBody(name, b) ==
    CASE name = "get_economic_indicators" ->
           tool_get_economic_indicators(b[1], b[2], b[3])
      [] name = "get_market_overview" -> tool_get_market_overview
      [] name = "get_sec_filings" -> tool_get_sec_filings(b[1], b[2], b[3])

\* `return route_to_vendor(...)`: what the router handed back, or its exception
RouterResult(r) == [raised |-> r.raised, text |-> r.text]
ToolReturns(got) == got

\* what the callers of the tools pass
GivenOf(vals, supplied) == [i \in supplied |-> vals[i]]
ToolGiven(name) ==
    CASE name = "get_economic_indicators" ->
           {GivenOf(<<"FEDFUNDS", "2025-01-01", ed>>, {1} \cup opt) :
                opt \in SUBSET {2, 3}, ed \in {"", "2025-06-01"}}
      [] name = "get_market_overview" -> {GivenOf(<<>>, {})}
      [] name = "get_sec_filings" ->
           {GivenOf(<<"aapl", "10-Q", 3>>, {1} \cup opt) : opt \in SUBSET {2, 3}}

NoResult == [raised |-> NoExc, text |-> <<>>]
ToolIdle ==
    [pc |-> "idle", name |-> None, given |-> <<>>, routed |-> <<>>,
     got |-> NoResult, result |-> NoResult]

(***************************************************************************)
(* Actions                                                                 *)
(***************************************************************************)
Threads == {"t1", "t2"}

\* a thread outside _get_obb
ThreadIdle ==
    [pc |-> "idle", observed |-> None, env |-> NoEnv, obb |-> None,
     fred_key |-> "unread", assigned |-> FALSE, ran |-> FALSE,
     raised |-> NoExc, ret |-> None]

Init ==
    /\ _obb = None
    /\ fred_api_key = None
    /\ initRuns = 0
    /\ served = {}
    /\ wasReset = FALSE
    /\ last = NoCall
    /\ rt = RtIdle
    /\ tool = ToolIdle
    /\ th = [t \in Threads |-> ThreadIdle]

\* calls are made one at a time: a new one starts when none is in progress
Sequential == rt.pc = "idle" /\ tool.pc = "idle"

\* a direct call of _get_obb()
CallGetObb ==
    /\ Sequential
    /\ \E env \in EnvsNow(Envs) :
         LET g == _get_obb(env)
         IN  /\ Effect(g)
             /\ last' = CallRecord("_get_obb", <<>>, "direct", env, g,
                                   IF g.raised # NoExc THEN Raised(g.raised, <<>>)
                                   ELSE NoOut)
    /\ rt' = RtIdle
    /\ UNCHANGED <<tool, th>>

\* provider._obb = None
ResetObb ==
    /\ Sequential
    /\ _obb' = None
    /\ initRuns' = 0
    /\ served' = {}
    /\ wasReset' = TRUE
    /\ last' = [NoCall EXCEPT !.op = "reset"]
    /\ rt' = RtIdle
    /\ UNCHANGED <<fred_api_key, tool, th>>

\* the SDK answers a call can meet: an adapter that _get_obb leaves with an
\* exception makes no provider call, so a single answer stands for all
AnswersNow(method, env, resps) ==
    IF method # "get_indicators" /\ _get_obb(env).raised # NoExc
    THEN {CHOOSE r \in resps : TRUE}
    ELSE resps

\* a direct call of the openbb adapter of a capability
CallAdapter(method) ==
    /\ Sequential
    /\ \E args \in ArgsOf(method), env \in EnvsNow(AdapterEnvs) :
       \E resp \in AnswersNow(method, env, RespsOf(method)) :
         LET a == Adapter(method, args, env, resp)
         IN  /\ IF a.touched THEN Effect(a.get) ELSE Untouched
             /\ last' = CallRecord(method, args, "direct", env, a.get, a.out)
    /\ rt' = RtIdle
    /\ UNCHANGED <<tool, th>>

GetStockData == CallAdapter("get_stock_data")
GetIndicators == CallAdapter("get_indicators")
GetFundamentals == CallAdapter("get_fundamentals")
GetBalanceSheet == CallAdapter("get_balance_sheet")
GetCashflow == CallAdapter("get_cashflow")
GetIncomeStatement == CallAdapter("get_income_statement")
GetInsiderTransactions == CallAdapter("get_insider_transactions")
GetNews == CallAdapter("get_news")
GetGlobalNews == CallAdapter("get_global_news")
GetSecFilings == CallAdapter("get_sec_filings")
GetEconomicIndicators == CallAdapter("get_economic_indicators")
GetMarketOverview == CallAdapter("get_market_overview")

\* route_to_vendor is entered
RouteStart ==
    /\ Sequential
    /\ \E method \in Methods \cup {"nonexistent_method"} :
         \E config \in Configs(method), args \in RouterArgs(method) :
            rt' = route_to_vendor(method, args, config)
    /\ last' = NoCall
    /\ Untouched
    /\ UNCHANGED <<tool, th>>

\* a tool wrapper is invoked: its body calls route_to_vendor
ToolInvoke(name) ==
    /\ Sequential
    /\ \E given \in ToolGiven(name), config \in Configs(name) :
         LET calls == ToolBody(name, Bound(name, given))
         IN  /\ tool' = [ToolIdle EXCEPT !.pc = "routing", !.name = name,
                                         !.given = given, !.routed = calls]
             /\ rt' = route_to_vendor(calls[1].method, calls[1].args, config)
    /\ last' = NoCall
    /\ Untouched
    /\ UNCHANGED th

ToolGetEconomicIndicators == ToolInvoke("get_economic_indicators")
ToolGetMarketOverview == ToolInvoke("get_market_overview")
ToolGetSecFilings == ToolInvoke("get_sec_filings")

\* the wrapper returns (or lets the router's exception through)
ToolReturn ==
    /\ tool.pc = "done"
    /\ tool' = ToolIdle
    /\ UNCHANGED <<last, rt, th>>
    /\ Untouched

NextVendor == rt.candidates[Len(rt.tried) + 1]

\* the router invokes the openbb adapter
RouteTryOpenBB ==
    /\ rt.pc = "trying"
    /\ NextVendor = "openbb"
    /\ \E env \in EnvsNow(AdapterEnvs) :
       \E resp \in AnswersNow(rt.method, env, RouterResps(rt.method)) :
         LET a == Adapter(rt.method, rt.args, env, resp)
         IN  /\ IF a.touched THEN Effect(a.get) ELSE Untouched
             /\ last' = CallRecord(rt.method, rt.args, "router", env, a.get, a.out)
             /\ rt' = AfterAttempt(rt, "openbb", a.out)
    /\ UNCHANGED <<tool, th>>

\* the router invokes the implementation of another vendor
RouteTryOther ==
    /\ rt.pc = "trying"
    /\ NextVendor # "openbb"
    /\ \E o \in VendorOutcomes(NextVendor) : rt' = AfterAttempt(rt, NextVendor, o)
    /\ UNCHANGED <<last, tool, th>>
    /\ Untouched

\* route_to_vendor returns to its caller (or raises): its frame is dropped
RouteReturn ==
    /\ rt.pc = "done"
    /\ rt' = RtIdle
    /\ tool' = IF tool.pc = "routing"
               THEN [tool EXCEPT !.pc = "done", !.got = RouterResult(rt),
                                 !.result = ToolReturns(RouterResult(rt))]
               ELSE tool
    /\ last' = NoCall
    /\ Untouched
    /\ UNCHANGED th

Next ==
    \/ CallGetObb
    \/ ResetObb
    \/ GetStockData
    \/ GetIndicators
    \/ GetFundamentals
    \/ GetBalanceSheet
    \/ GetCashflow
    \/ GetIncomeStatement
    \/ GetInsiderTransactions
    \/ GetNews
    \/ GetGlobalNews
    \/ GetSecFilings
    \/ GetEconomicIndicators
    \/ GetMarketOverview
    \/ RouteStart
    \/ ToolGetEconomicIndicators
    \/ ToolGetMarketOverview
    \/ ToolGetSecFilings
    \/ ToolReturn
    \/ RouteTryOpenBB
    \/ RouteTryOther
    \/ RouteReturn

Spec == Init /\ [][Next]_vars

(***************************************************************************)
(* _get_obb run by concurrent callers.  Each statement of the function is  *)
(* one step of the thread running it; nothing keeps another thread from    *)
(* taking steps in between.                                                *)
(***************************************************************************)
\* the environments the threads initialize in
ThreadEnvs == AdapterEnvs

Step(t, f) ==
    /\ th' = [th EXCEPT ![t] = f]
    /\ UNCHANGED <<wasReset, last, rt, tool>>

\* `if _obb is None`: the thread reads the global and branches on it
ThreadEnter(t) ==
    /\ th[t].pc = "idle"
    /\ Step(t, [ThreadIdle EXCEPT !.observed = _obb,
                                  !.pc = IF _obb = None THEN "import" ELSE "return"])
    /\ UNCHANGED <<_obb, fred_api_key, initRuns, served>>

\* `from openbb import obb`, ImportError re-raised with the hint
ThreadImport(t) ==
    /\ th[t].pc = "import"
    /\ \E env \in ThreadEnvs :
         Step(t, IF env.importable
                 THEN [th[t] EXCEPT !.pc = "getenv", !.env = env, !.obb = env.obb]
                 ELSE [th[t] EXCEPT !.pc = "idle", !.env = env,
                                    !.raised = NotInstalled])
    /\ UNCHANGED <<_obb, fred_api_key, initRuns, served>>

\* fred_key = os.getenv(...) or os.getenv(...); `if fred_key`
ThreadGetenv(t) ==
    /\ th[t].pc = "getenv"
    /\ Step(t, [th[t] EXCEPT !.fred_key = FredKey(th[t].env),
                             !.pc = IF Truthy(FredKey(th[t].env))
                                    THEN "assign" ELSE "cache"])
    /\ UNCHANGED <<_obb, fred_api_key, initRuns, served>>

\* obb.user.credentials.fred_api_key = fred_key
ThreadAssign(t) ==
    /\ th[t].pc = "assign"
    /\ IF th[t].env.credsOk
       THEN /\ fred_api_key' = th[t].fred_key
            /\ Step(t, [th[t] EXCEPT !.pc = "cache", !.assigned = TRUE])
       ELSE /\ UNCHANGED fred_api_key
            /\ Step(t, [th[t] EXCEPT !.pc = "idle", !.raised = CredentialFailure])
    /\ UNCHANGED <<_obb, initRuns, served>>

\* the caching assignment skipped when another thread cached first (mutant)
ThreadCache_recheck(t) ==
    /\ th[t].pc = "cache"
    /\ IF _obb = None
       THEN /\ _obb' = th[t].obb
            /\ initRuns' = Inc(initRuns)
            /\ Step(t, [th[t] EXCEPT !.pc = "return", !.ran = TRUE])
       ELSE /\ UNCHANGED <<_obb, initRuns>>
            /\ Step(t, [th[t] EXCEPT !.pc = "return"])
    /\ UNCHANGED <<fred_api_key, served>>

\* _obb = obb (and the log line): the end of the initialization block
ThreadCache(t) ==
    /\ th[t].pc = "cache"
    /\ _obb' = th[t].obb
    /\ initRuns' = Inc(initRuns)
    /\ Step(t, [th[t] EXCEPT !.pc = "return", !.ran = TRUE])
    /\ UNCHANGED <<fred_api_key, served>>

\* return _obb: the global as it is now
ThreadReturn(t) ==
    /\ th[t].pc = "return"
    /\ served' = served \cup {_obb}
    /\ Step(t, [th[t] EXCEPT !.pc = "idle", !.ret = _obb])
    /\ UNCHANGED <<_obb, fred_api_key, initRuns>>

NextConcurrent ==
    \E t \in Threads :
        \/ ThreadEnter(t)
        \/ ThreadImport(t)
        \/ ThreadGetenv(t)
        \/ ThreadAssign(t)
        \/ ThreadCache(t)
        \/ ThreadReturn(t)

SpecConcurrent == Init /\ [][NextConcurrent]_vars

(***************************************************************************)
(* Properties of the router                                                *)
(***************************************************************************)
Routing == rt.pc # "idle" /\ rt.category # None
GaveUp == rt.pc = "done" /\ rt.category # None /\ rt.raised # NoExc
Registered(method, vendor) == Contains(VENDOR_METHODS(method), vendor)
MultiVendor(method) == Len(VENDOR_METHODS(method)) > 1

\* position of a registered vendor in the registration order of a capability
RegistrationIndex(method, vendor) ==
    CHOOSE i \in DOMAIN VENDOR_METHODS(method) : VENDOR_METHODS(method)[i] = vendor

\* C1 as stated: for every capability registered with more than one vendor the
\* vendor configured for its category is the first one route_to_vendor tries,
\* and the router gives up only after every registered vendor has been tried,
\* the others in registration order, each at most once.
C1_ConfiguredVendorAlwaysFirst ==
    (Routing /\ MultiVendor(rt.method) /\ rt.configured # None) =>
        /\ Len(rt.tried) >= 1 => rt.tried[1] = rt.configured
        /\ GaveUp => Range(rt.tried) = Range(VENDOR_METHODS(rt.method))

\* C1 as amended: the configured vendor is tried first whenever it has an
\* implementation for the capability (otherwise the first registered vendor
\* is); the vendors tried are registered ones, each at most once, those other
\* than the configured one in registration order, a further one only after
\* every earlier attempt failed; the router gives up only when every
\* registered vendor has been tried.
C1_ConfiguredFirstThenFallback ==
    (Routing /\ MultiVendor(rt.method)) =>
        /\ Len(rt.tried) >= 1 =>
              rt.tried[1] = IF Registered(rt.method, rt.configured)
                            THEN rt.configured
                            ELSE VENDOR_METHODS(rt.method)[1]
        /\ \A i \in DOMAIN rt.tried : Registered(rt.method, rt.tried[i])
        /\ \A i, j \in DOMAIN rt.tried : i < j => rt.tried[i] # rt.tried[j]
        /\ \A i, j \in DOMAIN rt.tried :
              (i < j /\ rt.tried[i] # rt.configured /\ rt.tried[j] # rt.configured)
                 => RegistrationIndex(rt.method, rt.tried[i])
                      < RegistrationIndex(rt.method, rt.tried[j])
        /\ Len(rt.errors) >= Len(rt.tried) - 1
        /\ GaveUp => Range(rt.tried) = Range(VENDOR_METHODS(rt.method))

\* the configured vendor is the last registered one, every vendor failed and
\* the router gave up after trying all three
C1_Witness ==
    /\ GaveUp
    /\ MultiVendor(rt.method)
    /\ rt.configured = "openbb"
    /\ rt.tried = <<"openbb", "yfinance", "alpha_vantage">>

\* C2: for a capability registered with exactly one vendor the candidate list
\* has exactly one entry, exactly one implementation is invoked and no
\* fallback attempt happens, whatever the configuration says.
C2_ExclusiveSingleCandidate ==
    (Routing /\ rt.method \in Exclusive) =>
        /\ Len(VENDOR_METHODS(rt.method)) = 1
        /\ Len(rt.candidates) = 1
        /\ rt.pc = "trying" => rt.tried = <<>>
        /\ rt.pc = "done" => rt.tried = VENDOR_METHODS(rt.method)

\* an exclusive capability routed under a configuration naming another
\* vendor: the one adapter raised and the router gave up at once
C2_Witness ==
    /\ GaveUp
    /\ rt.method \in Exclusive
    /\ rt.configured = "yfinance"
    /\ rt.tried = <<"openbb">>

\* C3: candidates are invoked strictly in list order, the next one only when
\* the current one raised; if every candidate raised, the error propagated is
\* that of the last candidate tried.
C3_InOrderLastErrorPropagates ==
    Routing =>
        /\ Len(rt.tried) <= Len(rt.candidates)
        /\ \A i \in DOMAIN rt.tried : rt.tried[i] = rt.candidates[i]
        /\ rt.pc = "trying" => Len(rt.errors) = Len(rt.tried)
        /\ (rt.pc = "done" /\ rt.raised = NoExc) =>
              /\ Len(rt.tried) >= 1
              /\ Len(rt.errors) = Len(rt.tried) - 1
        /\ GaveUp =>
              /\ rt.tried = rt.candidates
              /\ Len(rt.errors) = Len(rt.candidates)
              /\ rt.raised = rt.errors[Len(rt.errors)]

\* all three candidates raised, with different errors first and last
C3_Witness ==
    /\ GaveUp
    /\ Len(rt.tried) = 3
    /\ rt.errors[1] # rt.errors[3]
    /\ rt.raised = rt.errors[3]

\* C4: get_category_for_method returns the category that declares the name
\* (macro_data for get_economic_indicators and get_market_overview, sec_data
\* for get_sec_filings) and raises a lookup error containing "not found" for
\* a name no category declares.
C4_CategoryLookup ==
    rt.pc # "idle" =>
        /\ rt.method \in {"get_economic_indicators", "get_market_overview"}
              => rt.category = "macro_data"
        /\ rt.method = "get_sec_filings" => rt.category = "sec_data"
        /\ \A i \in DOMAIN TOOLS_CATEGORIES :
              rt.method \in TOOLS_CATEGORIES[i].tools
                 => rt.category = TOOLS_CATEGORIES[i].name
        /\ (\A i \in DOMAIN TOOLS_CATEGORIES : rt.method \notin TOOLS_CATEGORIES[i].tools)
              => /\ rt.pc = "done"
                 /\ rt.category = None
                 /\ rt.raised.type = "ValueError"
                 /\ Contains(rt.raised.msg, "not found")
                 /\ rt.tried = <<>>
                 /\ rt.text = <<>>

\* a name no category declares was routed and the lookup error came back
C4_Witness ==
    /\ rt.pc = "done"
    /\ rt.method = "nonexistent_method"
    /\ rt.raised = NotFound("nonexistent_method")

(***************************************************************************)
(* Properties of the lazy singleton                                        *)
(***************************************************************************)
\* the last call went through _get_obb (directly or inside an adapter)
ThroughGetObb ==
    last.op = "_get_obb" \/ (last.op \in Methods /\ last.op # "get_indicators")
ObtainedClient == ThroughGetObb /\ last.get.ret # None

\* i-th position of a step in the trace of a pass through _get_obb
StepIndex(steps, step) == CHOOSE i \in DOMAIN steps : steps[i] = step

\* C5: over any sequence of sequential calls of _get_obb and of the adapters
\* with no reset in between, every call obtains the same client instance and
\* the initialization block has run to completion exactly once.
C5_SingleInstanceInitializedOnce ==
    /\ Cardinality(served) <= 1
    /\ initRuns <= 1
    /\ served # {} => (initRuns = 1 /\ served = {_obb})
    /\ ObtainedClient => last.get.ret = _obb

\* an adapter call was served from the cache filled by an earlier call
C5_Witness ==
    /\ last.op \in Methods
    /\ last.get.before # None
    /\ last.get.ret = last.get.before
    /\ last.get.steps = <<>>
    /\ initRuns = 1

\* C6: once _obb has been reset to None, the next call of _get_obb that
\* returns a client has run the initialization block again: it imported the
\* SDK, read the credential variables and assigned the credential they hold
\* before it cached and returned the client.
C6_ResetForcesReinitialization ==
    (ObtainedClient /\ last.afterReset) =>
        LET steps == last.get.steps
        IN  /\ last.get.before = None
            /\ Contains(steps, "import")
            /\ Contains(steps, "getenv FRED_API_KEY")
            /\ Contains(steps, "cache")
            /\ StepIndex(steps, "import") < StepIndex(steps, "getenv FRED_API_KEY")
            /\ StepIndex(steps, "getenv FRED_API_KEY") < StepIndex(steps, "cache")
            /\ Truthy(last.get.fred_key) =>
                  /\ Contains(steps, "assign")
                  /\ StepIndex(steps, "assign") < StepIndex(steps, "cache")
                  /\ fred_api_key = last.get.fred_key
            /\ _obb = last.get.ret

\* after a reset a call initialized again and assigned the credential
C6_Witness ==
    /\ ObtainedClient
    /\ last.afterReset
    /\ Contains(last.get.steps, "assign")
    /\ initRuns = 1

\* C7: when the SDK package cannot be imported, _get_obb raises an
\* ImportError whose message holds "openbb is not installed" and the
\* installation hint, and returns no client.
C7_MissingPackageRaisesImportError ==
    (ThroughGetObb /\ Contains(last.get.steps, "import failed")) =>
        /\ last.get.raised.type = "ImportError"
        /\ Contains(last.get.raised.msg, "openbb is not installed.")
        /\ Contains(last.get.raised.msg,
                    "Install with: pip install 'openbb[yfinance,sec,fred]'")
        /\ last.get.ret = None
        /\ last.out.raised = last.get.raised
        /\ _obb = None

\* a direct call of _get_obb found the package missing
C7_Witness ==
    /\ last.op = "_get_obb"
    /\ last.get.steps = <<"import failed">>
    /\ last.out.raised = NotInstalled

(***************************************************************************)
(* Properties of the adapters                                              *)
(***************************************************************************)
AdapterCalled == last.op \in Methods
SomeCall(outcome) ==
    \E i \in DOMAIN last.out.calls : last.out.calls[i].outcome = outcome
FirstCall(outcome) ==
    Len(last.out.calls) >= 1 /\ last.out.calls[1].outcome = outcome

\* C8: the only exception that reaches the caller of an openbb adapter is the
\* missing-dependency error of the lazy initialization; every other failure
\* (a failing credential assignment, a failure in the delegate of
\* get_indicators) comes back as a string.
C8_OnlyMissingDependencyEscapes ==
    (AdapterCalled /\ last.out.raised # NoExc) => last.out.raised = NotInstalled

\* "No <subject> found ...": the message opens with No and holds found
IsNoFound(text) == Len(text) >= 3 /\ text[1] = "No" /\ Contains(text, "found")

\* a header comment block, a CSV block or a narrative block
HasBlock(text) ==
    \E i \in DOMAIN text :
        text[i] \in {"# Data retrieved on:", "# Source: OpenBB", "<columns>",
                     "# Market Overview", "##", "## Global Market News, from"}

\* C9 as stated: whenever a provider call an adapter makes raises, the
\* adapter returns a string holding "Error" and the exception's message;
\* every adapter, every provider call.
C9_EveryProviderFailureIsAnErrorString ==
    AdapterCalled =>
        \A i \in DOMAIN last.out.calls :
            last.out.calls[i].outcome = "raise" =>
                /\ last.out.raised = NoExc
                /\ Contains(last.out.text, "Error")
                /\ Contains(last.out.text, last.out.calls[i].msg)

\* C9 as amended: an adapter returns normally whenever a provider call it
\* makes raises.  For every adapter but get_market_overview, when the call
\* whose table the adapter formats (its only call; the profile call of
\* get_fundamentals) raises, the string holds "Error" and the exception's
\* message and a warning is logged.  The per-item calls of get_market_overview
\* and the metrics call of get_fundamentals are swallowed silently: the
\* string holds neither "Error" nor the message.
C9_ProviderFailureStringified ==
    AdapterCalled =>
        /\ SomeCall("raise") => last.out.raised = NoExc
        /\ (last.op # "get_market_overview" /\ FirstCall("raise")) =>
              /\ Contains(last.out.text, "Error")
              /\ Contains(last.out.text, last.out.calls[1].msg)
              /\ last.out.warned
              /\ Len(last.out.calls) = 1
        /\ (SomeCall("raise")
              /\ (last.op = "get_market_overview" \/ ~FirstCall("raise"))) =>
              /\ ~Contains(last.out.text, "Error")
              /\ \A i \in DOMAIN last.out.calls :
                    last.out.calls[i].outcome = "raise"
                       => ~Contains(last.out.text, last.out.calls[i].msg)
              /\ ~last.out.warned

\* the balance endpoint raised and get_balance_sheet returned the error string
C9_Witness ==
    /\ last.op = "get_balance_sheet"
    /\ FirstCall("raise")
    /\ last.out.raised = NoExc
    /\ Contains(last.out.text, "Error")
    /\ Contains(last.out.text, "API error")

\* C10 as stated: whenever the provider returns an empty table, the adapter
\* returns "No <subject> found ..." naming what was asked for, logs no
\* warning, returns no header or data block, and the outcome differs from the
\* error outcome; every adapter.
C10_EveryEmptyTableIsNoDataMessage ==
    (AdapterCalled /\ SomeCall("empty")) =>
        /\ last.out.raised = NoExc
        /\ IsNoFound(last.out.text)
        /\ Len(last.args) >= 1 => Contains(last.out.text, last.args[1])
        /\ ~last.out.warned
        /\ ~HasBlock(last.out.text)
        /\ ~Contains(last.out.text, "Error")
        /\ last.out.text # <<"Unable to retrieve market overview data">>

\* C10 as amended: for every adapter but get_market_overview, when the call
\* whose table the adapter formats returns an empty table, the adapter makes
\* no further call and returns "No <subject> found ..." naming its first
\* argument, logs no warning, returns no header or data block and no error
\* string.  get_market_overview skips an empty item; when no item yields a
\* value it returns "Unable to retrieve market overview data", whether the
\* items came back empty or raised.
C10_EmptyTableNoDataMessage ==
    AdapterCalled =>
        /\ (last.op # "get_market_overview" /\ FirstCall("empty")) =>
              /\ last.out.raised = NoExc
              /\ IsNoFound(last.out.text)
              /\ Contains(last.out.text, last.args[1])
              /\ ~last.out.warned
              /\ ~HasBlock(last.out.text)
              /\ ~Contains(last.out.text, "Error")
              /\ Len(last.out.calls) = 1
        /\ (last.op = "get_market_overview" /\ last.out.raised = NoExc
              /\ ~SomeCall("rows")) =>
              last.out.text = <<"Unable to retrieve market overview data">>
        /\ (last.op = "get_market_overview" /\ SomeCall("rows")) =>
              HasBlock(last.out.text)

\* the filings endpoint returned an empty table
C10_Witness ==
    /\ last.op = "get_sec_filings"
    /\ FirstCall("empty")
    /\ last.out.text = <<"No", "10-Q", "filings", "found", "for", "FAKE">>

(***************************************************************************)
(* Properties of the tool wrappers                                         *)
(***************************************************************************)
\* C11: a tool wrapper calls route_to_vendor exactly once per invocation,
\* with its own tool name as the capability and its parameters (those given,
\* the declared default for the others) in declared order and unchanged, and
\* it returns what the router returned, unchanged.
C11_WrapperDelegatesOnce ==
    tool.pc # "idle" =>
        /\ tool.name \in {"get_economic_indicators", "get_market_overview",
                           "get_sec_filings"}
        /\ Len(tool.routed) = 1
        /\ tool.routed[1].method = tool.name
        /\ Len(tool.routed[1].args) = Len(ToolDefaults(tool.name))
        /\ \A i \in DOMAIN tool.routed[1].args :
              tool.routed[1].args[i] = IF i \in DOMAIN tool.given
                                       THEN tool.given[i]
                                       ELSE ToolDefaults(tool.name)[i]
        /\ tool.pc = "routing" =>
              /\ rt.pc # "idle"
              /\ rt.method = tool.name
              /\ rt.args = tool.routed[1].args
        /\ tool.pc = "done" =>
              /\ rt.pc = "idle"
              /\ tool.result = tool.got

\* get_economic_indicators was invoked with its end date only and handed
\* back the text the router returned
C11_Witness ==
    /\ tool.pc = "done"
    /\ tool.name = "get_economic_indicators"
    /\ DOMAIN tool.given = {1, 3}
    /\ tool.routed = <<RouteCall("get_economic_indicators",
                                  <<"FEDFUNDS", None, "2025-06-01">>)>>
    /\ tool.result.raised = NoExc
    /\ tool.result.text # <<>>

(***************************************************************************)
(* Properties of the credential configuration                              *)
(***************************************************************************)
\* C12: in an initialization the credential held by FRED_API_KEY, else by
\* OPENBB_FRED_API_KEY, is assigned to the SDK's store before the client is
\* cached, so every provider call of an adapter goes through a client that
\* was cached after its credential assignment; when neither variable holds
\* a value the store is left as it was.
C12_CredentialAssignedBeforeCaching ==
    /\ (ThroughGetObb /\ Contains(last.get.steps, "cache")) =>
          LET steps == last.get.steps
              key == IF last.env.FRED_API_KEY \notin {None, ""}
                     THEN last.env.FRED_API_KEY
                     ELSE last.env.OPENBB_FRED_API_KEY
          IN  /\ last.get.fred_key = key
              /\ key \notin {None, ""} =>
                    /\ Contains(steps, "assign")
                    /\ StepIndex(steps, "assign") < StepIndex(steps, "cache")
                    /\ fred_api_key = key
              /\ key \in {None, ""} =>
                    /\ ~Contains(steps, "assign")
                    /\ fred_api_key = last.keyBefore
    /\ (ThroughGetObb /\ Contains(last.get.steps, "assign failed")) =>
          /\ ~Contains(last.get.steps, "cache")
          /\ _obb = None
          /\ last.out.calls = <<>>
    /\ (AdapterCalled /\ last.out.calls # <<>>) =>
          /\ _obb # None
          /\ last.get.ret = _obb
          /\ last.get.steps = <<>> \/ Contains(last.get.steps, "cache")
    /\ _obb # None => initRuns >= 1

\* the first adapter call initialized with OPENBB_FRED_API_KEY (FRED_API_KEY
\* empty), assigned it, cached the client and made its provider call
C12_Witness ==
    /\ AdapterCalled
    /\ last.env.FRED_API_KEY = ""
    /\ last.get.steps = <<"import", "getenv FRED_API_KEY",
                           "getenv OPENBB_FRED_API_KEY", "assign", "cache", "log">>
    /\ fred_api_key = "k2"
    /\ last.out.calls # <<>>

\* C13: the credential variables are read only inside the initialization
\* block: a call that finds the client cached reads neither variable and
\* leaves the SDK's store and the cached reference as they were, whatever
\* the environment holds by then; get_indicators reads nothing either.
C13_EnvironmentReadOnlyAtInitialization ==
    /\ (ThroughGetObb /\ last.obbBefore # None) =>
          /\ last.get.steps = <<>>
          /\ last.get.fred_key = "unread"
          /\ fred_api_key = last.keyBefore
          /\ _obb = last.obbBefore
          /\ last.get.ret = last.obbBefore
    /\ (ThroughGetObb /\ Contains(last.get.steps, "getenv FRED_API_KEY")) =>
          /\ last.obbBefore = None
          /\ Contains(last.get.steps, "import")
          /\ StepIndex(last.get.steps, "import")
                < StepIndex(last.get.steps, "getenv FRED_API_KEY")
    /\ last.op = "get_indicators" =>
          /\ last.get.steps = <<>>
          /\ fred_api_key = last.keyBefore

\* the client was cached without a credential; a later adapter call found
\* FRED_API_KEY set and the store stayed empty
C13_Witness ==
    /\ AdapterCalled
    /\ last.obbBefore # None
    /\ last.env.FRED_API_KEY = "k1"
    /\ last.keyBefore = None
    /\ fred_api_key = None
    /\ last.out.calls # <<>>

(***************************************************************************)
(* Frame and request properties of the adapters                            *)
(***************************************************************************)
\* the adapter ran its body: _get_obb handed it a client
BodyRan == AdapterCalled /\ last.op # "get_indicators" /\ last.get.ret # None

\* no provider request is issued twice in one invocation
NoRequestTwice ==
    \A i, j \in DOMAIN last.out.calls :
        i < j => \/ last.out.calls[i].endpoint # last.out.calls[j].endpoint
                 \/ last.out.calls[i].kwargs # last.out.calls[j].kwargs

C15_StatementRequest ==
    (last.op \in Statements /\ BodyRan) =>
        /\ Len(last.out.calls) = 1
        /\ last.out.calls[1].endpoint =
              (CASE last.op = "get_balance_sheet" -> "equity.fundamental.balance"
                 [] last.op = "get_cashflow" -> "equity.fundamental.cash"
                 [] last.op = "get_income_statement" -> "equity.fundamental.income")
        /\ DOMAIN last.out.calls[1].kwargs = {"symbol", "period", "provider", "limit"}
        /\ last.out.calls[1].kwargs.symbol =
              (IF last.args[1] = "aapl" THEN "AAPL" ELSE last.args[1])
        /\ last.out.calls[1].kwargs.provider = "yfinance"
        /\ last.out.calls[1].kwargs.limit = 8
        /\ last.out.calls[1].kwargs.period =
              (IF last.args[2] \in {"quarterly", "Quarterly"}
               THEN "quarter" ELSE "annual")

\* get_cashflow was asked for a frequency in capitals and requested quarters
C15_Witness ==
    /\ last.op = "get_cashflow"
    /\ last.args = <<"aapl", "Quarterly">>
    /\ Len(last.out.calls) = 1
    /\ last.out.calls[1].kwargs.symbol = "AAPL"
    /\ last.out.calls[1].kwargs.period = "quarter"

\* C16: get_economic_indicators calls the FRED endpoint once with symbol
\* equal to the indicator as given and provider "fred"; the call carries
\* start_date (end_date) exactly when that argument is a non-empty value, so
\* a None forwarded by the tool wrapper yields a call without the parameter.
C16_FredRequest ==
    (last.op = "get_economic_indicators" /\ BodyRan) =>
        LET kwargs == last.out.calls[1].kwargs
        IN  /\ Len(last.out.calls) = 1
            /\ last.out.calls[1].endpoint = "economy.fred_series"
            /\ kwargs.symbol = last.args[1]
            /\ kwargs.provider = "fred"
            /\ {"symbol", "provider"} \subseteq DOMAIN kwargs
            /\ DOMAIN kwargs \subseteq {"symbol", "provider", "start_date", "end_date"}
            /\ "start_date" \in DOMAIN kwargs <=> last.args[2] \notin {None, ""}
            /\ "end_date" \in DOMAIN kwargs <=> last.args[3] \notin {None, ""}
            /\ "start_date" \in DOMAIN kwargs => kwargs.start_date = last.args[2]
            /\ "end_date" \in DOMAIN kwargs => kwargs.end_date = last.args[3]

\* the tool was invoked without a start date: the router forwarded None and
\* the adapter's call carried the end date only
C16_Witness ==
    /\ tool.pc = "routing"
    /\ tool.name = "get_economic_indicators"
    /\ DOMAIN tool.given = {1, 3}
    /\ last.via = "router"
    /\ last.op = "get_economic_indicators"
    /\ last.args = <<"FEDFUNDS", None, "2025-06-01">>
    /\ Len(last.out.calls) = 1
    /\ DOMAIN last.out.calls[1].kwargs = {"symbol", "provider", "end_date"}

\* the adapters whose success text is a CSV table
CsvAdapters ==
    {"get_stock_data", "get_balance_sheet", "get_cashflow", "get_income_statement",
     "get_insider_transactions", "get_economic_indicators"}

\* the header states the number of records of the table it precedes
StatesRecordCount(text) ==
    \E i \in DOMAIN text :
        /\ i < Len(text)
        /\ text[i] \in {"# Total records:", "# Showing last"}
        /\ \E n \in 0..(TailRows + MaxRows) : text[i + 1] = ToString(n)

\* C17: every adapter that returns CSV text on success puts before it a
\* header comment block stating the source, the retrieval timestamp and the
\* record count of the returned table.
C17_CsvHeaderStatesSourceTimeCount ==
    (AdapterCalled /\ last.op \in CsvAdapters /\ Contains(last.out.text, "<columns>")) =>
        /\ \E i \in DOMAIN last.out.text :
              last.out.text[i] \in {"# Source: OpenBB", "# Source: OpenBB (SEC)",
                                    "# Source: OpenBB (FRED)",
                                    "# Source: OpenBB (yfinance provider)"}
        /\ \E i \in DOMAIN last.out.text :
              /\ i < Len(last.out.text)
              /\ last.out.text[i] = "# Data retrieved on:"
              /\ last.out.text[i + 1] = NOW
        /\ StatesRecordCount(last.out.text)

\* C18: every capability with a registered implementation is declared by
\* exactly one category, so the category lookup of a routed capability
\* succeeds and names that category (macro_data and sec_data included).
C18_OneCategoryPerCapability ==
    /\ \A m \in Methods \cup {"nonexistent_method"} :
          Len(VENDOR_METHODS(m)) >= 1 =>
             Cardinality({i \in DOMAIN TOOLS_CATEGORIES :
                             m \in TOOLS_CATEGORIES[i].tools}) = 1
    /\ \A i, j \in DOMAIN TOOLS_CATEGORIES :
          i # j => TOOLS_CATEGORIES[i].name # TOOLS_CATEGORIES[j].name
    /\ (rt.pc # "idle" /\ Len(VENDOR_METHODS(rt.method)) >= 1) =>
          /\ rt.category # None
          /\ rt.raised.type # "ValueError"
          /\ {TOOLS_CATEGORIES[i].name : i \in {k \in DOMAIN TOOLS_CATEGORIES :
                  rt.method \in TOOLS_CATEGORIES[k].tools}} = {rt.category}

\* an openbb-exclusive capability of sec_data was routed to its adapter
C18_Witness ==
    /\ rt.pc = "done"
    /\ rt.method = "get_sec_filings"
    /\ rt.category = "sec_data"
    /\ rt.tried = <<"openbb">>
    /\ rt.text # <<>>

\* C19: when the candidate the router tries is an openbb adapter and a
\* provider call of the adapter raises, the adapter hands the router a
\* string, the router returns that string and tries no further vendor.
C19_RouterGetsStringNotException ==
    (last.via = "router" /\ AdapterCalled /\ SomeCall("raise")) =>
        /\ last.out.raised = NoExc
        /\ last.out.text # <<>>
        /\ rt.pc = "done"
        /\ rt.raised = NoExc
        /\ rt.text = last.out.text
        /\ rt.tried[Len(rt.tried)] = "openbb"
        /\ rt.method = last.op

\* openbb was configured for get_stock_data, its provider call raised, and
\* the router returned the error string with two vendors left untried
C19_Witness ==
    /\ last.via = "router"
    /\ last.op = "get_stock_data"
    /\ FirstCall("raise")
    /\ rt.pc = "done"
    /\ rt.candidates = <<"openbb", "yfinance", "alpha_vantage">>
    /\ rt.tried = <<"openbb">>
    /\ Contains(rt.text, "Error")
    /\ rt.text = last.out.text

(***************************************************************************)
(* Properties of _get_obb under concurrent callers                         *)
(***************************************************************************)
InBlock(t) == th[t].pc \in {"import", "getenv", "assign", "cache"}

\* C20: the test `_obb is None` and the assignment `_obb = obb` are separate
\* steps with no guard between them: every caller that saw the reference
\* unset runs the initialization block to its end and caches its client,
\* also when another caller has cached one meanwhile, without looking at
\* the reference again; so the block (credential assignment included) can
\* run once per concurrent first caller.
C20_CheckThenActWithoutGuard ==
    /\ \A t \in Threads :
          /\ InBlock(t) => th[t].observed = None
          /\ (th[t].pc = "return" /\ th[t].observed = None) =>
                /\ th[t].ran
                /\ _obb # None
                /\ th[t].fred_key \notin {None, "", "unread"} => th[t].assigned
          /\ th[t].ran => (th[t].observed = None /\ th[t].obb # None)
          /\ th[t].pc = "return" /\ th[t].observed # None => ~th[t].ran
    /\ Cardinality({t \in Threads : th[t].ran}) <= initRuns
    /\ _obb # None => initRuns >= 1

\* both callers saw the reference unset, each assigned a credential and
\* cached a client, and both have returned: the block ran twice
C20_Witness ==
    /\ \A t \in Threads :
          /\ th[t].pc = "idle"
          /\ th[t].observed = None
          /\ th[t].ran
          /\ th[t].assigned
          /\ th[t].ret = _obb
    /\ initRuns = 2

(***************************************************************************)
(* Failed initialization                                                   *)
(***************************************************************************)
\* C21: a call of _get_obb that fails leaves the cached reference unset and
\* the failure is not remembered: the next call runs the initialization
\* block again, and it succeeds (returns and caches the client) as soon as
\* the SDK is importable.
C21_FailedInitializationNotRemembered ==
    /\ (ThroughGetObb /\ last.get.raised # NoExc) =>
          /\ last.obbBefore = None
          /\ _obb = None
          /\ last.get.ret = None
    /\ (ThroughGetObb /\ last.afterFailure) =>
          /\ last.obbBefore = None
          /\ last.get.steps # <<>>
          /\ last.get.steps[1] \in {"import", "import failed"}
          /\ last.env.importable =>
                /\ last.get.raised = NoExc
                /\ last.get.ret = last.env.obb
                /\ _obb = last.env.obb

(***************************************************************************)
(* Multi-call adapters                                                     *)
(***************************************************************************)
\* the items of the market overview that produced a value
Valued == {i \in DOMAIN last.out.calls : last.out.calls[i].outcome = "rows"}

\* C22: get_market_overview queries ^GSPC, ^DJI, ^IXIC, ^VIX and then
\* FEDFUNDS, DGS10, UNRATE, in this order, each exactly once; an item whose
\* call raises or returns an empty table keeps no other item from being
\* queried or reported; the result is "Unable to retrieve market overview
\* data" exactly when no item produced a value.
C22_MarketOverviewAllItemsInOrder ==
    (last.op = "get_market_overview" /\ BodyRan) =>
        LET calls == last.out.calls
            text == last.out.text
            symbols == <<"^GSPC", "^DJI", "^IXIC", "^VIX", "FEDFUNDS", "DGS10", "UNRATE">>
            labels == <<"S&P 500", "Dow Jones", "NASDAQ", "VIX", "Fed Funds Rate",
                        "10Y Treasury", "Unemployment Rate">>
        IN  /\ Len(calls) = 7
            /\ \A i \in DOMAIN calls :
                  /\ calls[i].kwargs.symbol = symbols[i]
                  /\ calls[i].endpoint = IF i <= 4 THEN "equity.price.historical"
                                         ELSE "economy.fred_series"
                  /\ calls[i].kwargs.provider = IF i <= 4 THEN "yfinance" ELSE "fred"
            /\ last.out.raised = NoExc
            /\ (text = <<"Unable to retrieve market overview data">>) <=> (Valued = {})
            /\ Valued # {} =>
                  /\ Len(text) = 4 + Cardinality(Valued)
                  /\ text[1] = "# Market Overview"
                  /\ \A i \in Valued :
                        text[4 + Cardinality({j \in Valued : j <= i})]
                           = labels[i] \o ": " \o ToString(calls[i].n)

\* the query of ^GSPC raised; the six other items were queried and reported
C22_Witness ==
    /\ last.op = "get_market_overview"
    /\ Len(last.out.calls) = 7
    /\ last.out.calls[1].outcome = "raise"
    /\ Valued = 2..7
    /\ last.out.text[5] = "Dow Jones: 1"
    /\ last.out.text[10] = "Unemployment Rate: 1"

\* what get_fundamentals returns for a profile alone
ProfileOnly ==
    <<"# Company Fundamentals for",
      IF last.args[1] = "aapl" THEN "AAPL" ELSE last.args[1],
      "# Source: OpenBB", "# Data retrieved on:", NOW, "<profile fields>">>

\* C23: in get_fundamentals a metrics call that raises or returns an empty
\* table is ignored without a trace: the text is the profile-only text,
\* never an error string, and no warning is logged; a raising profile call
\* yields the error string and an empty profile the no-data message, in both
\* cases without the metrics endpoint being called.
C23_MetricsFailureIgnored ==
    (last.op = "get_fundamentals" /\ BodyRan) =>
        LET calls == last.out.calls
            text == last.out.text
        IN  /\ last.out.raised = NoExc
            /\ Len(calls) >= 1
            /\ calls[1].endpoint = "equity.profile"
            /\ FirstCall("rows") =>
                  /\ Len(calls) = 2
                  /\ calls[2].endpoint = "equity.fundamental.metrics"
                  /\ calls[2].outcome \in {"raise", "empty"} =>
                        /\ text = ProfileOnly
                        /\ ~Contains(text, "Error")
                        /\ ~Contains(text, calls[2].msg)
                        /\ ~last.out.warned
                  /\ calls[2].outcome = "rows" =>
                        text = ProfileOnly \o <<"<metric fields>">>
            /\ FirstCall("raise") =>
                  /\ Len(calls) = 1
                  /\ text = <<"Error", "retrieving fundamentals for", last.args[1],
                              ":", calls[1].msg>>
                  /\ last.out.warned
            /\ FirstCall("empty") =>
                  /\ Len(calls) = 1
                  /\ text = <<"No", "fundamentals data", "found", "for symbol",
                              last.args[1]>>
                  /\ ~last.out.warned

\* the profile came back and the metrics call raised: the profile alone was
\* returned
C23_Witness ==
    /\ last.op = "get_fundamentals"
    /\ Len(last.out.calls) = 2
    /\ last.out.calls[1].outcome = "rows"
    /\ last.out.calls[2].outcome = "raise"
    /\ last.out.text = ProfileOnly

(***************************************************************************)
(* get_indicators                                                          *)
(***************************************************************************)
\* C24: get_indicators hands its four arguments unchanged to the stockstats
\* implementation and returns what that returns; it neither reads nor
\* initializes the cached SDK reference and makes no provider call, so it
\* works without the SDK package and fails only as the delegate fails.
C24_IndicatorsBypassSingleton ==
    last.op = "get_indicators" =>
        /\ Len(last.args) = 4
        /\ last.out.delegated = last.args
        /\ last.out.calls = <<>>
        /\ last.get.steps = <<>>
        /\ last.get.ret = None
        /\ _obb = last.obbBefore
        /\ fred_api_key = last.keyBefore
        /\ last.out.raised # NoExc =>
              /\ last.out.raised.type = "Exception"
              /\ last.out.raised # NotInstalled
              /\ last.out.text = <<>>
        /\ last.out.raised = NoExc =>
              last.out.text = <<"<stockstats report>", last.args[1], last.args[2],
                                last.args[3], ToString(last.args[4])>>

\* with no client cached and the SDK package missing, get_indicators
\* returned the delegate's report
C24_Witness ==
    /\ last.op = "get_indicators"
    /\ last.obbBefore = None
    /\ ~last.env.importable
    /\ last.out.raised = NoExc
    /\ Contains(last.out.text, "<stockstats report>")
    /\ _obb = None

(***************************************************************************)
(* get_economic_indicators: the rows shown                                 *)
(***************************************************************************)
\* C25: for a FRED table of n >= 1 rows get_economic_indicators returns the
\* last min(n, 20) rows in their original order, and the number in the
\* header line "Showing last k data points" is the number of rows returned.
C25_LastTwentyRows ==
    (last.op = "get_economic_indicators" /\ FirstCall("rows")) =>
        LET n == last.out.calls[1].n
            k == IF n <= 20 THEN n ELSE 20
            text == last.out.text
        IN  /\ n >= 1
            /\ Len(text) = 9 + k
            /\ text[4] = "# Showing last"
            /\ text[5] = ToString(k)
            /\ text[6] = "data points"
            /\ text[9] = "<columns>"
            /\ \A i \in 1..k : text[9 + i] = ToString(n - k + i)

\* a table of 21 rows: rows 2 to 21 were returned under "Showing last 20"
C25_Witness ==
    /\ last.op = "get_economic_indicators"
    /\ FirstCall("rows")
    /\ last.out.calls[1].n = 21
    /\ Len(last.out.text) = 29
    /\ last.out.text[5] = "20"
    /\ last.out.text[10] = "2"
    /\ last.out.text[29] = "21"
=============================================================================
